---------------------------- MODULE Spec2Model ----------------------------
(***************************************************************************)
(* A model of the QueryClient of                                           *)
(* src/content/posts/building-a-poor-mans-react-query-from-scratch:        *)
(* the query cache (queries, queryFns), the per-key listener sets, and     *)
(* fetchQuery / invalidateQuery / subscribe / notify / setQueryState.      *)
(*                                                                         *)
(* JavaScript runs every handler to completion, so each action below is a  *)
(* whole synchronous run: a public call with every listener callback and   *)
(* nested call it triggers, or the continuation of one awaited fetch       *)
(* function.  The run is computed by the operators fetchQuery, notifyFrom, *)
(* listenerCall, ... over a record m that holds the client's fields.       *)
(***************************************************************************)
EXTENDS Integers, Sequences, FiniteSets, TLC

\* ---------------------------------------------------------------- bounds
MaxTime == 2        \* Date.now() ranges over 1..MaxTime
MaxCalls == 2       \* fetchQuery calls made in all (invalidateQuery makes one)
MaxSubs == 2        \* subscribe calls application code makes in all

\* ---------------------------------------------------------------- values
Keys == {"a", "b"}
Fns == {"f", "g"}
NoFn == "nofn"
StaleTimes == {0, 1}

Undefined == "undefined"
Null == "null"
\* what a fetch function may resolve with
Values == {"v1", "v2", Null, Undefined}

\* `null` in the error field; thrown / rejected values are records too
NoError == [isError |-> FALSE, msg |-> "null"]
\* what a fetch function may reject with: an Error object, or a bare string
RejectValues == {[isError |-> TRUE, msg |-> "E"], [isError |-> FALSE, msg |-> "boom"]}
\* what the throwing listener throws
ListenerError == [isError |-> TRUE, msg |-> "listener"]

\* error instanceof Error ? error : new Error(String(error))
NormalizeError(error) ==
    IF error.isError THEN error ELSE [isError |-> TRUE, msg |-> error.msg]

\* the absence of a QueryState in the queries map
NoState ==
    [data |-> Undefined, status |-> "absent", error |-> NoError,
     lastFetchedAt |-> 0, staleTime |-> 0]

QueryState(data, status, error, lastFetchedAt, staleTime) ==
    [data |-> data, status |-> status, error |-> error,
     lastFetchedAt |-> lastFetchedAt, staleTime |-> staleTime]

\* existingQuery?.data ?? undefined
DataOrUndefined(existingQuery) ==
    IF existingQuery = NoState \/ existingQuery.data = Null
    THEN Undefined ELSE existingQuery.data

\* existingQuery?.data
OptData(existingQuery) ==
    IF existingQuery = NoState THEN Undefined ELSE existingQuery.data

\* existingQuery?.lastFetchedAt || 0
LastFetchedOrZero(existingQuery) ==
    IF existingQuery = NoState THEN 0 ELSE existingQuery.lastFetchedAt

\* the cache check, had it compared the age with the staleTime option of the
\* call instead of the staleTime stored with the entry
IsFreshByOption(existingQuery, staleTime, time) ==
    /\ existingQuery # NoState
    /\ existingQuery.status = "success"
    /\ time - existingQuery.lastFetchedAt < staleTime

\* the cache check, had the staleTime option of the call been able to extend
\* the freshness of the entry
IsFreshByEitherStaleTime(existingQuery, staleTime, time) ==
    /\ existingQuery # NoState
    /\ existingQuery.status = "success"
    /\ \/ time - existingQuery.lastFetchedAt < existingQuery.staleTime
       \/ time - existingQuery.lastFetchedAt < staleTime

\* the cache check of fetchQuery, lines 193-195; staleTime is the option of the
\* call, which the check does not read
IsFresh(existingQuery, staleTime, time) ==
    /\ existingQuery # NoState
    /\ existingQuery.status = "success"
    /\ time - existingQuery.lastFetchedAt < existingQuery.staleTime

\* the deduplication check of fetchQuery, line 202
IsLoading(existingQuery) ==
    existingQuery # NoState /\ existingQuery.status = "loading"

\* the loading state, had it carried the error of the previous state over
LoadingStateKeepingError(existingQuery, staleTime) ==
    QueryState(DataOrUndefined(existingQuery), "loading", existingQuery.error,
               LastFetchedOrZero(existingQuery), staleTime)

\* the state fetchQuery writes before it invokes queryFn, lines 221-227
LoadingState(existingQuery, staleTime) ==
    QueryState(DataOrUndefined(existingQuery), "loading", NoError,
               LastFetchedOrZero(existingQuery), staleTime)

\* the success state, had it stored the default staleTime
SuccessStateDefaultStaleTime(data, staleTime, time) ==
    QueryState(data, "success", NoError, time, 0)

\* the state fetchQuery writes when queryFn resolved, lines 232-238
SuccessState(data, staleTime, time) ==
    QueryState(data, "success", NoError, time, staleTime)

\* the error state, had it cleared the data
ErrorStateClearingData(existingQuery, err, staleTime) ==
    QueryState(Undefined, "error", err,
               LastFetchedOrZero(existingQuery), staleTime)

\* the state fetchQuery writes in its catch block, lines 243-249
ErrorState(existingQuery, err, staleTime) ==
    QueryState(OptData(existingQuery), "error", err,
               LastFetchedOrZero(existingQuery), staleTime)

\* promises
Pending == [kind |-> "pending", data |-> Undefined, error |-> NoError]
Resolved(data) == [kind |-> "resolved", data |-> data, error |-> NoError]
Rejected(error) == [kind |-> "rejected", data |-> Undefined, error |-> error]
Outcomes == {Resolved(v) : v \in Values} \cup {Rejected(e) : e \in RejectValues}
\* a promise that settled before the last action: its value is no longer recorded
Forgotten == [kind |-> "forgotten", data |-> Undefined, error |-> NoError]

\* listeners: the callbacks application code subscribes, and the closure a
\* deduplicated fetchQuery call subscribes (one per call)
ListenerNames == {"noop", "thrower", "refetcher"}
Pub(name) == [kind |-> "pub", name |-> name, call |-> 0]
Waiter(call) == [kind |-> "waiter", name |-> "", call |-> call]
\* the re-entrant listener runs client.fetchQuery(key, RefetchFn), as long as
\* fewer than MaxCalls fetchQuery calls have been made
RefetchFn == "g"

Range(s) == {s[i] : i \in 1..Len(s)}
Ids(entries) == [i \in 1..Len(entries) |-> entries[i].id]

VARIABLES
    now,        \* Date.now()
    queries,    \* this.queries: key -> QueryState (NoState: no entry)
    queryFns,   \* this.queryFns: key -> fetch function (NoFn: no entry)
    listeners,  \* this.listeners: key -> the Set's members in insertion order
                \*   (<<>>: no entry; the code deletes a Set that becomes empty)
    unsubs,     \* the unsubscribe closures handed out, one per subscribe call:
                \*   the key and listener it closes over, and whether it was called
    fetches,    \* the invocations of fetch functions, in order: the closure of
                \*   fetchQuery awaiting each, and what the last action settled
    calls,      \* the fetchQuery calls, in order: the promise each returned,
                \*   pending or as the last action settled it
    writes,     \* the setQueryState calls of the last action, in order
    scope,      \* the keys application code uses (fixed by Init)
    subsAllowed, \* the subscribe calls application code makes at most (fixed by Init)
    lastFn,     \* key -> the function the latest fetchQuery call of application
                \*   code or of a listener passed (NoFn: none yet)
    quiet       \* key -> application code started a fetch for the key and has
                \*   since made only fetchQuery calls on it (until the fetch settles)

vars == <<now, queries, queryFns, listeners, unsubs, fetches, calls, writes,
          scope, subsAllowed, lastFn, quiet>>

\* ------------------------------------------------------ the running client
\* the fetch function invocations for key that have not settled
InFlight(fs, key) ==
    {i \in 1..Len(fs) : fs[i].key = key /\ fs[i].outcome = Pending}
Latest(S) == IF S = {} THEN 0 ELSE CHOOSE i \in S : \A j \in S : j <= i

\* f with its values computed once (the functions the run updates with EXCEPT)
Tabulated(f) == f @@ <<>>

ForgetCalls(cs) ==
    [i \in 1..Len(cs) |->
        IF cs[i].outcome = Pending THEN cs[i]
        ELSE [key |-> "", fn |-> NoFn, origin |-> "", path |-> "", fetch |-> 0,
              outcome |-> Forgotten]]
ForgetFetches(fs) ==
    [i \in 1..Len(fs) |->
        IF fs[i].outcome = Pending THEN fs[i]
        ELSE [key |-> "", fn |-> NoFn, staleTime |-> 0, existing |-> NoState,
              held |-> NoState, call |-> 0, outcome |-> Forgotten]]

\* The client's fields during one synchronous run.  ls gives every Set member
\* the insertion stamp that Set.prototype.forEach iterates by; exc is the
\* exception in flight (NoError: none); discarded is the state invalidateQuery
\* deleted.  Promises that settled before this run are forgotten.
Load ==
    [q |-> queries, fns |-> queryFns,
     ls |-> Tabulated([k \in Keys |->
               Tabulated([i \in 1..Len(listeners[k]) |->
                            [id |-> listeners[k][i], stamp |-> i]])]),
     stamp |-> 1 + Len(listeners[CHOOSE k \in Keys :
                                   \A j \in Keys : Len(listeners[j]) <= Len(listeners[k])]),
     fetches |-> Tabulated(ForgetFetches(fetches)),
     calls |-> Tabulated(ForgetCalls(calls)), writes |-> <<>>,
     quiet |-> Tabulated([k \in Keys |-> quiet[k] /\ InFlight(fetches, k) # {}]),
     discarded |-> NoState, exc |-> NoError]

\* subscribe(key, listener), lines 131-134: Set.add keeps one copy
subscribe(m, key, id) ==
    IF \E e \in Range(m.ls[key]) : e.id = id
    THEN m
    ELSE [m EXCEPT !.ls[key] = Append(@, [id |-> id, stamp |-> m.stamp]),
                   !.stamp = @ + 1]

\* the closure subscribe returns, lines 137-145
unsubscribe(m, key, id) ==
    [m EXCEPT !.ls[key] = SelectSeq(@, LAMBDA e : e.id # id)]

RECURSIVE fetchQuery(_, _, _, _, _), notifyFrom(_, _, _, _), listenerCall(_, _, _)

\* the listener the deduplication path subscribes, lines 205-215
waiterCall(m, key, id) ==
    LET state == m.q[key] IN
    IF state # NoState /\ state.status # "loading"
    THEN LET m1 == unsubscribe(m, key, id) IN
         IF state.status = "success"
         THEN [m1 EXCEPT !.calls[id.call].outcome = Resolved(state.data)]
         ELSE IF state.status = "error"
         THEN [m1 EXCEPT !.calls[id.call].outcome = Rejected(state.error)]
         ELSE m1
    ELSE m

\* one listener() call of notify's forEach, line 151
listenerCall(m, key, id) ==
    IF id.kind = "waiter" THEN waiterCall(m, key, id)
    ELSE IF id.name = "thrower" THEN [m EXCEPT !.exc = ListenerError]
    ELSE IF id.name = "refetcher" /\ Len(m.calls) < MaxCalls
    THEN fetchQuery([m EXCEPT !.quiet[key] = FALSE], key, RefetchFn, 0, "listener")
    ELSE m

\* notify(key), lines 148-153: forEach visits the members in insertion order,
\* members added during the iteration included, removed ones skipped; a
\* listener that throws ends the iteration and the exception propagates.
\* w is the entry of m.writes that records this delivery: the listeners called
\* and the fetchQuery calls made from inside them.
notifyFrom(m, key, last, w) ==
    LET later == {e \in Range(m.ls[key]) : e.stamp > last} IN
    IF later = {} THEN m
    ELSE LET e == CHOOSE x \in later : \A y \in later : x.stamp <= y.stamp
             m1 == [m EXCEPT !.writes[w].called = Append(@, e.id)]
             m2 == listenerCall(m1, key, e.id)
             m3 == [m2 EXCEPT !.writes[w].nested =
                                  @ \cup ((Len(m1.calls) + 1)..Len(m2.calls))]
         IN IF m3.exc # NoError THEN m3 ELSE notifyFrom(m3, key, e.stamp, w)

\* setQueryState, had the client kept one state for all keys
setQueryStateOfEveryKey(m, key, state, fetch) ==
    LET m1 == [m EXCEPT !.q = Tabulated([k \in Keys |-> state]),
                        !.writes = Append(@, [key |-> key, state |-> state,
                                              prev |-> m.q[key].status,
                                              fetch |-> fetch,
                                              subs |-> Ids(m.ls[key]),
                                              called |-> <<>>,
                                              nested |-> {}])]
    IN notifyFrom(m1, key, 0, Len(m1.writes))

\* setQueryState(key, state), lines 155-158
setQueryState(m, key, state, fetch) ==
    LET m1 == [m EXCEPT !.q[key] = state,
                        !.writes = Append(@, [key |-> key, state |-> state,
                                              prev |-> m.q[key].status,
                                              fetch |-> fetch,
                                              subs |-> Ids(m.ls[key]),
                                              called |-> <<>>,
                                              nested |-> {}])]
    IN notifyFrom(m1, key, 0, Len(m1.writes))

\* the cache hit, had it stored the entry again on every read
cacheHitStoringAgain(m, c, existingQuery) ==
    setQueryState([m EXCEPT !.calls[c].path = "hit",
                            !.calls[c].outcome = Resolved(existingQuery.data)],
                  m.calls[c].key, existingQuery, 0)

\* the cache hit of call c, lines 196-197: return existingQuery.data
cacheHit(m, c, existingQuery) ==
    [m EXCEPT !.calls[c].path = "hit",
              !.calls[c].outcome = Resolved(existingQuery.data)]

\* the remembered fetch function, had only the first one been kept
queryFnsSetIfAbsent(m, key, queryFn) ==
    IF m.fns[key] = NoFn THEN [m EXCEPT !.fns[key] = queryFn] ELSE m

\* this.queryFns.set(key, queryFn), line 188
queryFnsSet(m, key, queryFn) ==
    [m EXCEPT !.fns[key] = queryFn]

\* the fetch a call on a loading key waits for: the latest one in flight, or,
\* when the call is made from the notify of the loading write, the one that
\* fetchQuery starts when that notify returns
Joined(m, key) ==
    IF InFlight(m.fetches, key) = {} THEN Len(m.fetches) + 1
    ELSE Latest(InFlight(m.fetches, key))

\* fetchQuery(key, queryFn, {staleTime}), lines 181-230, up to the await: the
\* promise it returns is calls[c].outcome.  An exception before the await
\* rejects the promise (the function is async).
fetchQuery(m, key, queryFn, staleTime, origin) ==
    LET c == Len(m.calls) + 1
        existingQuery == m.q[key]
        m0 == [queryFnsSet(m, key, queryFn) EXCEPT
                  !.calls = Append(@, [key |-> key, fn |-> queryFn,
                                       origin |-> origin, path |-> "fetch",
                                       fetch |-> 0, outcome |-> Pending])]
    IN
    IF IsFresh(existingQuery, staleTime, now)
    THEN cacheHit(m0, c, existingQuery)
    ELSE IF IsLoading(existingQuery)
    THEN subscribe([m0 EXCEPT !.calls[c].path = "dedup",
                              !.calls[c].fetch = Joined(m, key)],
                   key, Waiter(c))
    ELSE LET m1 == setQueryState(m0, key, LoadingState(existingQuery, staleTime), 0)
         IN IF m1.exc # NoError
            THEN [m1 EXCEPT !.exc = NoError, !.calls[c].outcome = Rejected(m1.exc)]
            ELSE [m1 EXCEPT !.calls[c].fetch = Len(m1.fetches) + 1,
                            !.fetches = Append(@, [key |-> key, fn |-> queryFn,
                                                   staleTime |-> staleTime,
                                                   existing |-> existingQuery,
                                                   held |-> IF origin = "invalidate"
                                                            THEN m.discarded
                                                            ELSE existingQuery,
                                                   call |-> c, outcome |-> Pending])]

\* the catch block of fetchQuery, lines 240-251
catchBlock(m, fid, error) ==
    LET f == m.fetches[fid]
        err == NormalizeError(error)
        m1 == setQueryState(m, f.key, ErrorState(f.existing, err, f.staleTime), fid)
    IN IF m1.exc # NoError
       THEN [m1 EXCEPT !.exc = NoError, !.calls[f.call].outcome = Rejected(m1.exc)]
       ELSE [m1 EXCEPT !.calls[f.call].outcome = Rejected(err)]

\* fetchQuery after the await, lines 230-251: queryFn() settled with result
resume(m, fid, result) ==
    LET f == m.fetches[fid]
        m0 == [m EXCEPT !.fetches[fid].outcome = result]
    IN IF result.kind = "resolved"
       THEN LET m1 == setQueryState(m0, f.key,
                                    SuccessState(result.data, f.staleTime, now), fid)
            IN IF m1.exc # NoError
               THEN catchBlock([m1 EXCEPT !.exc = NoError], fid, m1.exc)
               ELSE [m1 EXCEPT !.calls[f.call].outcome = Resolved(result.data)]
       ELSE catchBlock(m0, fid, result.error)

\* invalidateQuery, had it refetched without looking for an entry
invalidateQueryUnguarded(m, key) ==
    fetchQuery([m EXCEPT !.q[key] = NoState, !.discarded = m.q[key]],
               key, m.fns[key], m.q[key].staleTime, "invalidate")

\* invalidateQuery, had it refetched without passing the staleTime on
invalidateQueryDroppingStaleTime(m, key) ==
    LET queryFn == m.fns[key]
        queryState == m.q[key]
    IN IF queryState # NoState /\ queryFn # NoFn
       THEN fetchQuery([m EXCEPT !.q[key] = NoState, !.discarded = queryState],
                       key, queryFn, 0, "invalidate")
       ELSE m

\* invalidateQuery(key), lines 254-263
invalidateQuery(m, key) ==
    LET queryFn == m.fns[key]
        queryState == m.q[key]
    IN IF queryState # NoState /\ queryFn # NoFn
       THEN fetchQuery([m EXCEPT !.q[key] = NoState, !.discarded = queryState],
                       key, queryFn, queryState.staleTime, "invalidate")
       ELSE m

\* the end of a synchronous run: the client's fields as the run left them
Store(m) ==
    /\ queries' = m.q
    /\ queryFns' = m.fns
    /\ listeners' = [k \in Keys |-> Ids(m.ls[k])]
    /\ fetches' = m.fetches
    /\ calls' = m.calls
    /\ writes' = m.writes
    /\ lastFn' = [k \in Keys |->
          LET new == {i \in (Len(calls) + 1)..Len(m.calls) :
                         m.calls[i].key = k /\ m.calls[i].origin # "invalidate"}
          IN IF new = {} THEN lastFn[k] ELSE m.calls[Latest(new)].fn]
    /\ quiet' = m.quiet

\* ---------------------------------------------------------------- actions
InitClient ==
    /\ now = 1
    /\ queries = [k \in Keys |-> NoState]
    /\ queryFns = [k \in Keys |-> NoFn]
    /\ listeners = [k \in Keys |-> <<>>]
    /\ unsubs = <<>>
    /\ fetches = <<>>
    /\ calls = <<>>
    /\ writes = <<>>
    /\ lastFn = [k \in Keys |-> NoFn]
    /\ quiet = [k \in Keys |-> FALSE]

\* application code uses one key
Init == InitClient /\ scope = {"a"} /\ subsAllowed = MaxSubs

\* application code calls client.fetchQuery(key, queryFn, {staleTime})
FetchQueryCall(key, queryFn, staleTime) ==
    /\ key \in scope
    /\ Len(calls) < MaxCalls
    /\ LET m == fetchQuery(Load, key, queryFn, staleTime, "app") IN
       Store([m EXCEPT !.quiet[key] =
                 IF m.calls[Len(calls) + 1].path = "fetch"
                 THEN Len(m.calls) = Len(calls) + 1 /\ InFlight(fetches, key) = {}
                 ELSE @])
    /\ UNCHANGED <<now, unsubs, scope, subsAllowed>>

\* application code calls client.invalidateQuery(key)
InvalidateCall(key) ==
    /\ key \in scope
    /\ Len(calls) < MaxCalls
    /\ LET m == invalidateQuery(Load, key) IN
       Store([m EXCEPT !.quiet[key] = FALSE])
    /\ UNCHANGED <<now, unsubs, scope, subsAllowed>>

\* application code calls client.subscribe(key, listener) and keeps the closure
SubscribeCall(key, name) ==
    /\ key \in scope
    /\ Len(unsubs) < subsAllowed
    /\ Store([subscribe(Load, key, Pub(name)) EXCEPT !.quiet[key] = FALSE])
    /\ unsubs' = Append(unsubs, [key |-> key, name |-> name, used |-> FALSE])
    /\ UNCHANGED <<now, scope, subsAllowed>>

\* application code calls the unsubscribe closure its i-th subscribe call returned
UnsubscribeCall(i) ==
    /\ i \in 1..Len(unsubs)
    /\ LET key == unsubs[i].key IN
       Store([unsubscribe(Load, key, Pub(unsubs[i].name)) EXCEPT !.quiet[key] = FALSE])
    /\ unsubs' = [unsubs EXCEPT ![i].used = TRUE]
    /\ UNCHANGED <<now, scope, subsAllowed>>

\* the fetch function invoked as fetches[fid] settles and fetchQuery resumes
FetchSettle(fid, result) ==
    /\ fid \in 1..Len(fetches)
    /\ fetches[fid].outcome = Pending
    /\ Store(resume(Load, fid, result))
    /\ UNCHANGED <<now, unsubs, scope, subsAllowed>>

\* time passes
Tick ==
    /\ now < MaxTime
    /\ now' = now + 1
    /\ Store(Load)
    /\ UNCHANGED <<unsubs, scope, subsAllowed>>

Next ==
    \/ \E key \in Keys, queryFn \in Fns, staleTime \in StaleTimes :
          FetchQueryCall(key, queryFn, staleTime)
    \/ \E key \in Keys : InvalidateCall(key)
    \/ \E key \in Keys, name \in ListenerNames : SubscribeCall(key, name)
    \/ \E i \in 1..subsAllowed : UnsubscribeCall(i)
    \/ \E fid \in 1..MaxCalls, result \in Outcomes : FetchSettle(fid, result)
    \/ Tick

Spec == Init /\ [][Next]_vars

\* the same client used on every key, with one listener fewer
InitKeys == InitClient /\ scope = Keys /\ subsAllowed = MaxSubs - 1
SpecKeys == InitKeys /\ [][Next]_vars

\* the same client with one more listener subscribed
InitListeners == InitClient /\ scope = {"a"} /\ subsAllowed = MaxSubs + 1
SpecListeners == InitListeners /\ [][Next]_vars

\* ----------------------------------------------------------------- claims
CallsOn(k) == {i \in 1..Len(calls) : calls[i].key = k}
\* the fetches for k that the last action settled
SettledOn(k) == {i \in 1..Len(fetches) : fetches[i].key = k /\ fetches[i].outcome # Pending}
\* what a fetchQuery call gives its caller when queryFn settled with result
Expected(result) ==
    IF result.kind = "resolved" THEN result
    ELSE Rejected(NormalizeError(result.error))

\* C1 (Dedup): while application code, after starting a fetch for a key that
\* had no fresh value and no fetch in flight, makes only fetchQuery calls on
\* the key, the fetch function is invoked exactly once, every call stays
\* pending on that one invocation, and once it settles every call has settled
\* with its outcome.
C1_Dedup ==
    \A k \in Keys : quiet[k] =>
        /\ Cardinality(InFlight(fetches, k)) + Cardinality(SettledOn(k)) = 1
        /\ \A f \in InFlight(fetches, k) : \A c \in CallsOn(k) :
              calls[c].outcome = Pending /\ calls[c].fetch = f
        /\ \A f \in SettledOn(k) : \A c \in CallsOn(k) :
              calls[c].outcome = Expected(fetches[f].outcome)

\* C2 (at most one fetch in flight): no key ever has two invocations of a
\* fetch function that were started and have not settled.
C2_AtMostOneInFlight ==
    \A k \in Keys : Cardinality(InFlight(fetches, k)) <= 1


\* C3 (Freshness): a fetchQuery call of application code on a key whose state
\* is success and younger than its staleTime (now < lastFetchedAt + staleTime)
\* returns the cached data, invokes no fetch function and writes no state,
\* whatever staleTime the call passes.
C3_Freshness ==
    [][\A k \in Keys :
         LET c == Len(calls) + 1 IN
         ( /\ queries[k].status = "success"
           /\ now < queries[k].lastFetchedAt + queries[k].staleTime
           /\ Len(calls') >= c
           /\ calls'[c].key = k
           /\ calls'[c].origin = "app" )
         => /\ calls'[c].outcome = Resolved(queries[k].data)
            /\ Len(calls') = c
            /\ Len(fetches') = Len(fetches)
            /\ queries' = queries
            /\ writes' = <<>>]_vars

\* the last action was a fetchQuery call served from the cache
C3_Witness ==
    \E c \in 1..Len(calls) :
        /\ calls[c].path = "hit"
        /\ calls[c].origin = "app"
        /\ calls[c].outcome.kind = "resolved"
        /\ calls[c].outcome.data = "v1"

\* C4 as claimed (Stale-preserving error): when a fetch fails that was started,
\* by fetchQuery directly or through invalidateQuery, on a key holding the
\* successful value d, the state written has status error and data d.
C4_StalePreservingError ==
    \A fid \in 1..Len(fetches) :
        (fetches[fid].outcome.kind = "rejected" /\ fetches[fid].held.status = "success")
        => /\ Len(writes) >= 1
           /\ writes[1].state.status = "error"
           /\ writes[1].state.data = fetches[fid].held.data

\* C4 as amended: when a fetch fails, the state fetchQuery writes has status
\* error; its data is d if the call that started the fetch found the key in
\* status success with data d, and undefined if invalidateQuery started it
\* (the state was discarded before the fetch).
C4_Amended ==
    \A fid \in 1..Len(fetches) :
        fetches[fid].outcome.kind = "rejected"
        => /\ Len(writes) >= 1
           /\ writes[1].fetch = fid
           /\ writes[1].state.status = "error"
           /\ fetches[fid].existing.status = "success"
                => writes[1].state.data = fetches[fid].existing.data
           /\ calls[fetches[fid].call].origin = "invalidate"
                => writes[1].state.data = Undefined

\* a fetch started by a fetchQuery call on a successful, stale value has failed
C4_Witness ==
    \E fid \in 1..Len(fetches) :
        /\ fetches[fid].outcome.kind = "rejected"
        /\ fetches[fid].existing.status = "success"
        /\ fetches[fid].existing.data = "v1"
        /\ queries[fetches[fid].key].status = "error"
        /\ queries[fetches[fid].key].data = "v1"

Count(x, seq) == Cardinality({i \in 1..Len(seq) : seq[i] = x})

\* C5 (Notification completeness): the notify of every state write calls,
\* exactly once each, every listener that was subscribed to the key when the
\* write happened.
C5_NotificationCompleteness ==
    \A i \in 1..Len(writes) :
        \A l \in Range(writes[i].subs) : Count(l, writes[i].called) = 1

\* the fields of a fetch record that the code holds
Closure(f) == [f EXCEPT !.held = NoState]

C7_WaitersGetOutcome ==
    \A c \in 1..Len(calls) :
        calls[c].path = "dedup"
        => /\ calls[c].fetch \in 1..Len(fetches)
           /\ LET f == fetches[calls[c].fetch] IN
              IF calls[c].outcome = Pending
              THEN f.outcome = Pending
              ELSE /\ f.outcome \in Outcomes
                   /\ calls[c].outcome = Expected(f.outcome)
                   /\ calls[f.call].outcome = calls[c].outcome

\* C8 (Loading is transient): a key whose stored status is loading has a fetch
\* function invocation that has not settled, the only thing whose settling
\* moves the status on to success or error; a key in loading without one stays
\* in loading however long the client is left alone.
C8_LoadingTransient ==
    \A k \in Keys : queries[k].status = "loading" => InFlight(fetches, k) # {}

\* the status changes the state machine of a key allows
Edges ==
    {<<"absent", "loading">>, <<"idle", "loading">>, <<"loading", "success">>,
     <<"loading", "error">>, <<"success", "loading">>, <<"error", "loading">>}

\* C9 (Per-key state machine): every state write changes the stored status
\* along one of the edges of the state machine.
C9_StateMachine ==
    \A i \in 1..Len(writes) : <<writes[i].prev, writes[i].state.status>> \in Edges

\* the states stored now and written by the last action
Stored ==
    {queries[k] : k \in Keys} \cup {writes[i].state : i \in 1..Len(writes)}

\* C10 as claimed (QueryState invariant): status success implies data present
\* and error null; status error implies error present; error is non-null only
\* when status is error.
C10_QueryStateInvariant ==
    \A st \in Stored \ {NoState} :
        /\ st.status = "success" => st.data # Undefined /\ st.error = NoError
        /\ st.status = "error" => st.error # NoError
        /\ st.error # NoError => st.status = "error"

\* C10 as amended: status success implies error null and data equal to the
\* value the fetch function resolved with (undefined if it resolved with
\* undefined); status error implies error is an error object; error is
\* non-null only when status is error.
C10_Amended ==
    /\ \A st \in Stored \ {NoState} :
          /\ st.status = "success" => st.error = NoError
          /\ st.status = "error" => st.error # NoError /\ st.error.isError
          /\ st.error # NoError => st.status = "error"
    /\ \A i \in 1..Len(writes) :
          writes[i].state.status = "success"
          => /\ writes[i].fetch # 0
             /\ fetches[writes[i].fetch].outcome = Resolved(writes[i].state.data)

\* a fetch function resolved with undefined and the state is success
C10_Witness ==
    \E k \in Keys :
        /\ queries[k].status = "success"
        /\ queries[k].data = Undefined
        /\ \E i \in 1..Len(writes) : writes[i].state = queries[k]

\* C11 (Listener failure isolation): in the notify of every state write, a
\* listener that throws does not stop the delivery: every listener that was
\* subscribed to the key after it is still called for that write.
C11_FailureIsolation ==
    \A i \in 1..Len(writes) :
        \A p, q \in 1..Len(writes[i].subs) :
            (p < q /\ writes[i].subs[p] = Pub("thrower")
                   /\ Count(Pub("thrower"), writes[i].called) >= 1)
            => Count(writes[i].subs[q], writes[i].called) >= 1

\* C12 (Fetch failure): when the fetch function a fetchQuery call invoked
\* rejects with e, the call rejects with the error normalized from e, and the
\* state then stored for the key has status error and that same error.
C12_FetchFailure ==
    \A fid \in 1..Len(fetches) :
        fetches[fid].outcome.kind = "rejected"
        => LET err == NormalizeError(fetches[fid].outcome.error) IN
           /\ calls[fetches[fid].call].outcome = Rejected(err)
           /\ Len(writes) >= 1
           /\ writes[1].key = fetches[fid].key
           /\ writes[1].state.status = "error"
           /\ writes[1].state.error = err

\* C13 (Cache-hit path has no side effects on state): a fetchQuery call of
\* application code that is served from the cache writes no state, changes no
\* listener set, calls no listener, makes no further call and invokes no fetch
\* function; it changes only the remembered fetch function of its key.
C13_CacheHitFrame ==
    [][\A k \in Keys :
         LET c == Len(calls) + 1 IN
         ( /\ Len(calls') >= c
           /\ calls'[c].key = k
           /\ calls'[c].origin = "app"
           /\ calls'[c].path = "hit" )
         => /\ queries' = queries
            /\ listeners' = listeners
            /\ writes' = <<>>
            /\ Len(calls') = c
            /\ Len(fetches') = Len(fetches)
            /\ \A f \in 1..Len(fetches) :
                  fetches[f].outcome = Pending => fetches'[f] = fetches[f]
            /\ queryFns' = [queryFns EXCEPT ![k] = calls'[c].fn]]_vars

\* the last action was a fetchQuery call served from the cache that replaced
\* the remembered fetch function, on a key with a subscribed listener
C13_Witness ==
    \E c \in 1..Len(calls) :
        /\ calls[c].path = "hit"
        /\ calls[c].origin = "app"
        /\ lastFn[calls[c].key] = "g"
        /\ queryFns[calls[c].key] = "g"
        /\ listeners[calls[c].key] # <<>>
        /\ writes = <<>>

\* C14 (invalidateQuery on an unknown key is a no-op): whenever a key has no
\* state and no remembered fetch function, invalidateQuery on it leaves every
\* state, remembered function and listener set as they are, calls no listener,
\* writes nothing, makes no fetchQuery call, invokes no fetch function and
\* raises no error.
C14_InvalidateUnknownKey ==
    \A k \in Keys :
        (queries[k] = NoState /\ queryFns[k] = NoFn)
        => invalidateQuery(Load, k) = Load

\* a key nobody fetched has a listener subscribed, while application code may
\* still call invalidateQuery
C14_Witness ==
    \E k \in scope :
        /\ queries[k] = NoState
        /\ queryFns[k] = NoFn
        /\ listeners[k] # <<>>
        /\ Len(calls) < MaxCalls

\* the listener registry after application code calls the unsubscribe closure
\* of its i-th subscribe call
AfterUnsubscribe(i) ==
    LET m == unsubscribe(Load, unsubs[i].key, Pub(unsubs[i].name))
    IN [k \in Keys |-> Ids(m.ls[k])]

\* C15 (Unsubscription is idempotent): calling an unsubscribe closure that has
\* been called before leaves the listener registry unchanged, whatever happened
\* since its first call.
C15_UnsubscribeIdempotent ==
    \A i \in 1..Len(unsubs) :
        unsubs[i].used => AfterUnsubscribe(i) = listeners

\* C16 (unsubscribe removes exactly its own registration): calling the
\* unsubscribe closure of one subscribe call leaves in place every other
\* listener of every key, the registration that another subscribe call made
\* with the same key and callback included.
C16_UnsubscribeExact ==
    \A i \in 1..Len(unsubs) :
        /\ \A k \in Keys : \A l \in Range(listeners[k]) :
              (k # unsubs[i].key \/ l # Pub(unsubs[i].name))
              => l \in Range(AfterUnsubscribe(i)[k])
        /\ \A j \in 1..Len(unsubs) :
              ( /\ j # i
                /\ ~unsubs[j].used
                /\ Pub(unsubs[j].name) \in Range(listeners[unsubs[j].key]) )
              => Pub(unsubs[j].name) \in Range(AfterUnsubscribe(i)[unsubs[j].key])

\* C17 (No retry, stable error state): while the state of a key is error, a
\* step in which no fetchQuery call is made for the key (by application code,
\* by invalidateQuery or by a listener) writes no state for the key, leaves
\* its state as it is and invokes no fetch function for it.
C17_StableError ==
    [][\A k \in Keys :
         ( /\ queries[k].status = "error"
           /\ \A c \in (Len(calls) + 1)..Len(calls') : calls'[c].key # k )
         => /\ queries'[k] = queries[k]
            /\ \A i \in 1..Len(writes') : writes'[i].key # k
            /\ \A f \in (Len(fetches) + 1)..Len(fetches') : fetches'[f].key # k]_vars

\* C18 (Staleness boundary): a fetchQuery call of application code on a key in
\* status success with no fetch in flight returns the cached value exactly
\* when now - lastFetchedAt < staleTime of the entry; otherwise (equality
\* included) it invokes the fetch function it was passed, anew.
C18_StalenessBoundary ==
    [][\A k \in Keys :
         LET c == Len(calls) + 1 IN
         ( /\ queries[k].status = "success"
           /\ InFlight(fetches, k) = {}
           /\ Len(calls') >= c
           /\ calls'[c].key = k
           /\ calls'[c].origin = "app" )
         => IF now - queries[k].lastFetchedAt < queries[k].staleTime
            THEN /\ calls'[c].outcome = Resolved(queries[k].data)
                 /\ Len(fetches') = Len(fetches)
            ELSE /\ Len(fetches') > Len(fetches)
                 /\ LET f == fetches'[Len(fetches) + 1] IN
                    /\ f.key = k
                    /\ f.fn = calls'[c].fn
                    /\ f.call = c
                    /\ calls'[c].fetch = Len(fetches) + 1]_vars

\* C19 (Re-entrancy): when a listener calls fetchQuery for the key from inside
\* a notification, the nested call takes one of the three paths of fetchQuery
\* and returns its promise, and the notification goes on to call every
\* listener that was subscribed to the key after that listener.
C19_Reentrancy ==
    \A i \in 1..Len(writes) :
        \A p \in 1..Len(writes[i].subs) :
            ( /\ writes[i].subs[p] = Pub("refetcher")
              /\ writes[i].nested # {} )
            => /\ \A c \in writes[i].nested :
                     /\ calls[c].origin = "listener"
                     /\ calls[c].path \in {"hit", "dedup", "fetch"}
                     /\ calls[c].outcome \in {Pending} \cup
                            {Resolved(v) : v \in Values} \cup
                            {Rejected(NormalizeError(e)) : e \in RejectValues \cup {ListenerError}}
               /\ \A q \in (p + 1)..Len(writes[i].subs) :
                     Count(writes[i].subs[q], writes[i].called) >= 1


\* C20 (Loading transition, stale-while-revalidate): when a fetchQuery call of
\* application code with staleTime s takes the fetch path, the first state it
\* writes, before it invokes the fetch function, has status loading, no error,
\* staleTime s, and the data of the state the key had immediately before the
\* call (absent if the key had no state).
C20_LoadingTransition ==
    \A k \in scope, queryFn \in Fns, s \in StaleTimes :
        LET c == Len(calls) + 1
            m == fetchQuery(Load, k, queryFn, s, "app")
        IN ( /\ Len(calls) < MaxCalls
             /\ m.calls[c].path = "fetch" )
           => /\ m.writes # <<>>
              /\ m.writes[1].key = k
              /\ m.writes[1].state.status = "loading"
              /\ m.writes[1].state.error = NoError
              /\ m.writes[1].state.staleTime = s
              /\ m.writes[1].state.data = OptData(queries[k])


\* the state of the key of the i-th write of the last action immediately
\* before that write
Before(i) ==
    LET k == writes'[i].key
        earlier == {j \in 1..(i - 1) : writes'[j].key = k}
    IN IF earlier = {} THEN queries[k] ELSE writes'[Latest(earlier)].state

\* C21 (lastFetchedAt): a success transition stores the current time as
\* lastFetchedAt, and every other transition (loading, error) stores the
\* lastFetchedAt of the state the key had immediately before it (0 if the key
\* had none), so that lastFetchedAt is always the completion time of the last
\* successful fetch for the key.
C21_LastFetchedAt ==
    [][\A i \in 1..Len(writes') :
         IF writes'[i].state.status = "success"
         THEN writes'[i].state.lastFetchedAt = now
         ELSE writes'[i].state.lastFetchedAt = Before(i).lastFetchedAt]_vars


\* C22 (Remembered fetch function): after a step in which fetchQuery calls are
\* made for a key, on whichever path (cache hit, deduplication or fetch), the
\* function remembered for the key is the one the latest of those calls
\* passed; a step with no fetchQuery call for the key leaves its remembered
\* function as it is.
C22_RememberedFn ==
    [][\A k \in Keys :
         LET new == {c \in (Len(calls) + 1)..Len(calls') : calls'[c].key = k}
         IN IF new = {} THEN queryFns'[k] = queryFns[k]
            ELSE queryFns'[k] = calls'[Latest(new)].fn]_vars

\* a deduplicated call waits for a fetch of f and has replaced the remembered
\* function by g
C22_Witness ==
    \E c \in 1..Len(calls) :
        /\ calls[c].path = "dedup"
        /\ calls[c].outcome = Pending
        /\ calls[c].fn = "g"
        /\ calls[c].fetch \in 1..Len(fetches)
        /\ fetches[calls[c].fetch].fn = "f"
        /\ fetches[calls[c].fetch].outcome = Pending
        /\ queryFns[calls[c].key] = "g"


\* the writes of the last action to key k
WritesOn(k) == {i \in 1..Len(writes') : writes'[i].key = k}

\* C23 (Stored staleTime is last-write-wins): every state written for a key
\* carries the staleTime of the fetchQuery call that writes it (the option of
\* a call of application code, the staleTime of the discarded entry for the
\* call invalidateQuery makes, the default 0 for the call of a listener that
\* passes no option), the stored staleTime is that of the latest write, and
\* a call of application code that takes the cache-hit or the deduplication
\* path writes nothing and leaves the stored staleTime as it is.
C23_StaleTimeLastWriteWins ==
    [][\A k \in Keys :
         LET c == Len(calls) + 1
             called == Len(calls') >= c /\ calls'[c].key = k
         IN
         /\ queries'[k].staleTime =
               IF WritesOn(k) = {} THEN queries[k].staleTime
               ELSE writes'[Latest(WritesOn(k))].state.staleTime
         /\ \A i \in WritesOn(k) :
               writes'[i].fetch # 0
               => writes'[i].state.staleTime = fetches[writes'[i].fetch].staleTime
         /\ (called /\ calls'[c].origin = "app")
            => \A queryFn \in Fns, s \in StaleTimes :
                  FetchQueryCall(k, queryFn, s)
                  => IF calls'[c].path = "fetch"
                     THEN /\ WritesOn(k) # {}
                          /\ \A i \in WritesOn(k) : writes'[i].state.staleTime = s
                     ELSE /\ WritesOn(k) = {}
                          /\ queries'[k] = queries[k]
         /\ (called /\ calls'[c].origin = "invalidate")
            => /\ WritesOn(k) # {}
               /\ \A i \in WritesOn(k) :
                     writes'[i].state.staleTime = queries[k].staleTime
         /\ (~called \/ calls'[c].origin = "listener")
            => \A i \in WritesOn(k) :
                  writes'[i].fetch = 0 => writes'[i].state.staleTime = 0]_vars


\* a fetchQuery call with staleTime 1 on a stale success entry stored with
\* staleTime 0 has just written the loading state, and the stored staleTime is 1
C23_Witness ==
    \E f \in 1..Len(fetches) :
        /\ fetches[f].outcome = Pending
        /\ fetches[f].existing.status = "success"
        /\ fetches[f].existing.staleTime = 0
        /\ fetches[f].staleTime = 1
        /\ writes # <<>>
        /\ writes[1].key = fetches[f].key
        /\ writes[1].state.status = "loading"
        /\ queries[fetches[f].key].staleTime = 1


\* C24 (The freshness decision uses only the stored staleTime): whatever
\* staleTime s2 a fetchQuery call of application code passes on a key in
\* status success, the call is served from the cache (it returns the cached
\* data, writes nothing and invokes no fetch function) exactly when
\* now - lastFetchedAt is less than the staleTime stored in the entry.
C24_FreshnessByStoredStaleTime ==
    \A k \in scope, queryFn \in Fns, s2 \in StaleTimes :
        LET c == Len(calls) + 1
            m == fetchQuery(Load, k, queryFn, s2, "app")
            served == /\ m.calls[c].path = "hit"
                      /\ m.calls[c].outcome = Resolved(queries[k].data)
                      /\ m.writes = <<>>
                      /\ m.q = queries
                      /\ Len(m.fetches) = Len(fetches)
        IN ( /\ Len(calls) < MaxCalls
             /\ queries[k].status = "success" )
           => (served <=> now - queries[k].lastFetchedAt < queries[k].staleTime)

\* a call that passed staleTime 1 on a success entry stored with staleTime 0
\* and younger than 1 was not served from the cache: its fetch is in flight
C24_Witness ==
    \E f \in 1..Len(fetches) :
        /\ fetches[f].outcome = Pending
        /\ fetches[f].existing.status = "success"
        /\ fetches[f].existing.staleTime = 0
        /\ fetches[f].staleTime = 1
        /\ now - fetches[f].existing.lastFetchedAt < 1
        /\ calls[fetches[f].call].origin = "app"


\* the last action left key k alone: its state, remembered function and
\* listener set are as before, no state was written for it (so notify was not
\* called on it and none of its listeners ran), no fetchQuery call was made
\* for it, and its pending calls and fetches are as before
Untouched(k) ==
    /\ queries'[k] = queries[k]
    /\ queryFns'[k] = queryFns[k]
    /\ listeners'[k] = listeners[k]
    /\ WritesOn(k) = {}
    /\ \A c \in (Len(calls) + 1)..Len(calls') : calls'[c].key # k
    /\ \A c \in 1..Len(calls) :
          (calls[c].key = k /\ calls[c].outcome = Pending) => calls'[c] = calls[c]
    /\ \A f \in (Len(fetches) + 1)..Len(fetches') : fetches'[f].key # k
    /\ \A f \in 1..Len(fetches) :
          (fetches[f].key = k /\ fetches[f].outcome = Pending)
          => fetches'[f] = fetches[f]

\* the last action was an operation on key k
OperationOn(k) ==
    \/ \E queryFn \in Fns, staleTime \in StaleTimes : FetchQueryCall(k, queryFn, staleTime)
    \/ InvalidateCall(k)
    \/ \E name \in ListenerNames : SubscribeCall(k, name)
    \/ \E i \in 1..Len(unsubs) : unsubs[i].key = k /\ UnsubscribeCall(i)
    \/ \E fid \in 1..Len(fetches), result \in Outcomes :
          fetches[fid].key = k /\ FetchSettle(fid, result)

\* C25 (Key independence): an operation on key k1 (fetchQuery,
\* invalidateQuery, subscribe, unsubscribe, the completion of a fetch for k1)
\* leaves every other key k2 alone and runs no notification of k2; and a
\* fetchQuery call of application code for a key is deduplicated exactly when
\* that key itself is loading, waits then for no fetch of another key, and on
\* the fetch path invokes its fetch function in the same step unless a
\* listener of that key made the call fail, whatever is in flight for the
\* other keys.  (A listener is counted with the key it is registered under.)
C25_KeyIndependence ==
    [][/\ \A k1 \in Keys, k2 \in Keys :
            k1 # k2 => (Untouched(k2) \/ ~OperationOn(k1))
       /\ \A k \in Keys :
            LET c == Len(calls) + 1 IN
            (Len(calls') >= c /\ calls'[c].key = k /\ calls'[c].origin = "app")
            => /\ calls'[c].path = "dedup" <=> queries[k].status = "loading"
               /\ (calls'[c].path = "dedup" /\ calls'[c].fetch \in 1..Len(fetches))
                  => fetches[calls'[c].fetch].key = k
               /\ (calls'[c].path = "fetch" /\ calls'[c].outcome = Pending)
                  => /\ calls'[c].fetch = Len(fetches) + 1
                     /\ Len(fetches') > Len(fetches)
                     /\ fetches'[Len(fetches) + 1].key = k]_vars

\* while a fetch for one key is in flight and a listener is subscribed to
\* that key, the last action started a fetch for another key and called no
\* listener
C25_Witness ==
    \E f1 \in 1..Len(fetches), f2 \in 1..Len(fetches) :
        /\ f1 < f2
        /\ fetches[f1].outcome = Pending
        /\ fetches[f2].outcome = Pending
        /\ fetches[f1].key # fetches[f2].key
        /\ listeners[fetches[f1].key] # <<>>
        /\ Len(writes) = 1
        /\ writes[1].key = fetches[f2].key
        /\ writes[1].called = <<>>
        /\ queries[fetches[f1].key].status = "loading"


\* C26 (Deduplication waiters clean up after themselves): the listener of a
\* deduplicated fetchQuery call stays registered while the call is pending and
\* is gone once the call has settled; and whenever the status of a key is
\* success or error (between two runs of the client, so with no notification
\* in progress), its listener set holds only listeners that application code
\* subscribed and has not unsubscribed: no deduplicated call is still waiting.
C26_WaitersCleanUp ==
    /\ \A c \in 1..Len(calls) :
          calls[c].path = "dedup"
          => IF calls[c].outcome = Pending
             THEN Waiter(c) \in Range(listeners[calls[c].key])
             ELSE Waiter(c) \notin Range(listeners[calls[c].key])
    /\ \A k \in Keys :
          queries[k].status \in {"success", "error"}
          => \A l \in Range(listeners[k]) :
                /\ l.kind = "pub"
                /\ \E i \in 1..Len(unsubs) :
                      /\ unsubs[i].key = k
                      /\ Pub(unsubs[i].name) = l
                      /\ ~unsubs[i].used

=============================================================================
